---- MODULE Spec2Model ----
(***************************************************************************)
(* A model of halo2_proofs/src/arithmetic.rs: the work distributor         *)
(* (parallelize), the multi-scalar multiplication (multiexp_serial,        *)
(* small_multiexp, cpu_multiexp), the radix-2 transform (cpu_fft,          *)
(* recursive_butterfly_arithmetic) and the polynomial utilities            *)
(* (eval_polynomial, kate_division, lagrange_interpolate,                  *)
(* evaluate_vanishing_polynomial).                                         *)
(*                                                                         *)
(* Slices are sequences; the element the code calls x[k] is x[k + 1] here. *)
(* The generic field F is instantiated as the prime field of Modulus       *)
(* elements, and the curve group as the cyclic group of the same prime     *)
(* order, written additively (a prime-order curve group is isomorphic to   *)
(* it), so that base * scalar is multiplication modulo Modulus.            *)
(***************************************************************************)
EXTENDS Integers, Sequences, FiniteSets, TLC

VARIABLES
    num_threads,   \* multicore::current_num_threads()
    pc,            \* position of the call under study
    inp,           \* the arguments of the call under study
    ret,           \* what the calls made so far returned: <<>> or <<value>> per name
    v,             \* parallelize: per index, how many times f touched it;
                   \* cpu_multiexp: per slot, how many times multiexp_serial ran;
                   \* multiexp_serial: per bucket, the bases added to it;
                   \* cpu_fft: the omega of the call in progress;
                   \* test_lagrange_interpolate: the point the inner loop is at
    tasks,         \* parallelize: the tasks spawned in the scope so far;
                   \* cpu_fft: the calls of recursive_butterfly_arithmetic;
                   \* multiexp_serial: the segments processed so far
    results,       \* cpu_multiexp: the per-chunk accumulators; the parts of
                   \* the chunked evaluations; multiexp_serial: the buckets
    pending,       \* the spawned chunk workers that have not run yet
    a,             \* cpu_fft: the slice transformed in place;
                   \* multiexp_serial: <<*acc>>
    cursor         \* the index of the loop the call is in (cpu_fft: k of the
                   \* bit-reversal loop; multiexp_serial: the coefficient;
                   \* test_lagrange_interpolate: coeffs)

vars == <<num_threads, pc, inp, ret, v, tasks, results, pending, a, cursor>>

parVars == <<v, tasks>>
msmVars == <<results, pending>>
fftVars == <<a>>
notPar == <<inp, ret, results, pending, a>>

(***************************************************************************)
(* Bounds of the model.                                                    *)
(***************************************************************************)
MaxThreads == 3

Threads == 1..MaxThreads

Min(x, y) == IF x <= y THEN x ELSE y

CeilDiv(x, y) == (x + y - 1) \div y

\* what an operator yields on an input on which the code panics
PANIC == "panic"

\* for i in lo..hi { acc = Step(acc, i) }: the iterations run one after the
\* other in index order. The range is cut in two so that the evaluation does
\* not nest once per iteration; the test of `half` only makes TLC evaluate the
\* first half of the loop before the second half starts.
RECURSIVE Loop(_, _, _, _)
Loop(Step(_, _), acc, lo, hi) ==
    IF hi <= lo THEN acc
    ELSE IF hi = lo + 1 THEN Step(acc, lo)
    ELSE LET mid == (lo + hi) \div 2
             half == Loop(Step, acc, lo, mid)
         IN IF half = half THEN Loop(Step, half, mid, hi) ELSE half

(***************************************************************************)
(* parallelize (lines 708-756)                                             *)
(***************************************************************************)
base_chunk_size(total_iters, P) == total_iters \div P

cutoff_chunk_id(total_iters, P) == total_iters % P

split_pos_low(total_iters, P) ==
    cutoff_chunk_id(total_iters, P) * base_chunk_size(total_iters, P)

split_pos(total_iters, P) ==
    cutoff_chunk_id(total_iters, P) * (base_chunk_size(total_iters, P) + 1)

\* slice.chunks_exact_mut(size).len(): the remainder is left out
chunks_exact_len(len, size) == len \div size

hi_offset(chunk_id, total_iters, P) ==
    chunk_id * (base_chunk_size(total_iters, P) + 1)

lo_offset_no_split(chunk_id, total_iters, P) ==
    chunk_id * base_chunk_size(total_iters, P)

lo_offset(chunk_id, total_iters, P) ==
    split_pos(total_iters, P) + (chunk_id * base_chunk_size(total_iters, P))

\* One spawned task: the chunk is v[start .. start + len), f gets `offset`.
Task(start, len, offset) ==
    [start |-> start, len |-> len, offset |-> offset, pos |-> 0, st |-> "spawned"]

\* The spawns of the first loop, over v_hi = v[0 .. split_pos)
hi_spawns(total_iters, P) ==
    IF cutoff_chunk_id(total_iters, P) # 0
    THEN LET size == base_chunk_size(total_iters, P) + 1
         IN [k \in 1..chunks_exact_len(split_pos(total_iters, P), size) |->
                Task((k - 1) * size, size, hi_offset(k - 1, total_iters, P))]
    ELSE <<>>

\* The spawns of the second loop, over v_lo = v[split_pos .. total_iters)
lo_spawns(total_iters, P) ==
    IF base_chunk_size(total_iters, P) # 0
    THEN LET size == base_chunk_size(total_iters, P)
             sp == split_pos(total_iters, P)
         IN [k \in 1..chunks_exact_len(total_iters - sp, size) |->
                Task(sp + (k - 1) * size, size, lo_offset(k - 1, total_iters, P))]
    ELSE <<>>

spawns(total_iters, P) == hi_spawns(total_iters, P) \o lo_spawns(total_iters, P)

\* multicore::scope returns once every task spawned in it has finished
ScopeJoined == \A i \in 1..Len(tasks) : tasks[i].st = "done"

ParInit ==
    /\ num_threads \in Threads
    /\ cursor = 0
    /\ pc = "scope"
    /\ \E n \in 0..(4 * MaxThreads) :
          /\ n <= 4 * num_threads
          /\ v = [i \in 1..n |-> 0]
    /\ tasks = <<>>
    /\ inp = <<>> /\ ret = <<>>
    /\ results = <<>> /\ pending = {} /\ a = <<>>

\* one iteration of a spawn loop: scope.spawn(move |_| f(chunk, offset))
ParSpawn ==
    /\ pc = "scope"
    /\ Len(tasks) < Len(spawns(Len(v), num_threads))
    /\ tasks' = Append(tasks, spawns(Len(v), num_threads)[Len(tasks) + 1])
    /\ UNCHANGED <<cursor, num_threads, pc, v, notPar>>

\* a pool thread picks the task up and invokes f(chunk, offset)
ParWorkerStart(i) ==
    /\ tasks[i].st = "spawned"
    /\ tasks' = [tasks EXCEPT ![i].st = "running"]
    /\ UNCHANGED <<cursor, num_threads, pc, v, notPar>>

\* f handles the next element of its chunk
ParWorkerStep(i) ==
    /\ tasks[i].st = "running"
    /\ tasks[i].pos < tasks[i].len
    /\ v' = [v EXCEPT ![tasks[i].start + tasks[i].pos + 1] = @ + 1]
    /\ tasks' = [tasks EXCEPT ![i].pos = @ + 1]
    /\ UNCHANGED <<cursor, num_threads, pc, notPar>>

\* f returns
ParWorkerFinish(i) ==
    /\ tasks[i].st = "running"
    /\ tasks[i].pos = tasks[i].len
    /\ tasks' = [tasks EXCEPT ![i].st = "done"]
    /\ UNCHANGED <<cursor, num_threads, pc, v, notPar>>

ParReturnNoJoin ==
    /\ pc = "scope"
    /\ Len(tasks) = Len(spawns(Len(v), num_threads))
    /\ pc' = "returned"
    /\ UNCHANGED <<cursor, num_threads, v, tasks, notPar>>

\* the scope closure has run both loops and the scope has joined
ParReturn ==
    /\ pc = "scope"
    /\ Len(tasks) = Len(spawns(Len(v), num_threads))
    /\ ScopeJoined
    /\ pc' = "returned"
    /\ UNCHANGED <<cursor, num_threads, v, tasks, notPar>>

ParNext ==
    \/ ParSpawn
    \/ \E i \in 1..Len(tasks) : ParWorkerStart(i)
    \/ \E i \in 1..Len(tasks) : ParWorkerStep(i)
    \/ \E i \in 1..Len(tasks) : ParWorkerFinish(i)
    \/ ParReturn

SpecPar == ParInit /\ [][ParNext]_vars

(***************************************************************************)
(* Claims about parallelize                                                *)
(***************************************************************************)
TaskRange(t) == {k \in 0..(Len(v) - 1) : t.start <= k /\ k < t.start + t.len}

\* C1: when parallelize returns, f has been invoked exactly once per
\* partition (every spawned task ran once, to its end), the partitions are
\* pairwise disjoint index ranges of v, and every index 0..n-1 was handed to
\* f exactly once; for n = 0 no task exists, so f is never invoked.
C1_PartitionCoversOnce ==
    pc = "returned" =>
        /\ \A i \in 1..Len(tasks) : tasks[i].st = "done" /\ tasks[i].pos = tasks[i].len
        /\ \A i, j \in 1..Len(tasks) :
              i # j => TaskRange(tasks[i]) \cap TaskRange(tasks[j]) = {}
        /\ UNION {TaskRange(tasks[i]) : i \in 1..Len(tasks)} = 0..(Len(v) - 1)
        /\ \A k \in 1..Len(v) : v[k] = 1
        /\ (Len(v) = 0 => tasks = <<>>)

C1_Witness ==
    /\ pc = "returned"
    /\ Len(v) = 7
    /\ num_threads = 3
    /\ Len(tasks) = 3

\* C2: parallelize spawns exactly min(P, n) chunks, each of floor(n/P) or
\* floor(n/P)+1 elements, contiguous from index 0, the larger ones all before
\* the smaller ones, and f receives as start_offset the index of the chunk's
\* first element.
C2_BalancedChunks ==
    pc = "returned" =>
        LET n == Len(v)
            P == num_threads
        IN /\ Len(tasks) = Min(P, n)
           /\ \A i \in 1..Len(tasks) :
                 /\ tasks[i].len \in {n \div P, (n \div P) + 1}
                 /\ tasks[i].len >= 1
                 /\ tasks[i].offset = tasks[i].start
                 /\ tasks[i].start = (IF i = 1 THEN 0
                                      ELSE tasks[i - 1].start + tasks[i - 1].len)
           /\ \A i, j \in 1..Len(tasks) : i < j => tasks[i].len >= tasks[j].len

C2_Witness ==
    /\ pc = "returned"
    /\ Len(v) = 8
    /\ num_threads = 3
    /\ tasks[1].len = 3 /\ tasks[2].len = 3 /\ tasks[3].len = 2
    /\ tasks[3].offset = 6

\* C3: parallelize returns only after every worker has finished: at return
\* every partition is fully processed, and no worker step (no change of v or
\* of a task) happens once the call has returned.
C3_JoinBeforeReturn ==
    /\ [](pc = "returned" =>
            \A i \in 1..Len(tasks) : tasks[i].st = "done" /\ tasks[i].pos = tasks[i].len)
    /\ [][pc = "returned" => (v' = v /\ tasks' = tasks)]_vars

C3_Witness ==
    /\ pc = "returned"
    /\ Len(tasks) = 3
    /\ \A i \in 1..Len(tasks) : tasks[i].st = "done" /\ tasks[i].len >= 2

(***************************************************************************)
(* The field F (ff::Field, PrimeField) and the group (Curve, CurveAffine)   *)
(***************************************************************************)
Modulus == 257

\* PrimeField::NUM_BITS: the bit length of Modulus
NUM_BITS == 9

ZERO == 0

ONE == 1

identity == 0

F == 0..(Modulus - 1)

Add(x, y) == (x + y) % Modulus

Sub(x, y) == (x + Modulus - y) % Modulus

Neg(x) == (Modulus - x) % Modulus

Mul(x, y) == (x * y) % Modulus

\* Field::pow_vartime: square and multiply, x^0 = ONE also for x = ZERO
RECURSIVE pow_vartime(_, _)
pow_vartime(x, e) ==
    IF e = 0 THEN ONE
    ELSE LET h == pow_vartime(x, e \div 2)
         IN IF e % 2 = 1 THEN Mul(Mul(h, h), x) ELSE Mul(h, h)

\* Field::invert of a nonzero element
invert(x) == pow_vartime(x, Modulus - 2)

\* group addition, doubling, and the scalar action base * scalar
GAdd(p, q) == (p + q) % Modulus

GDouble(p) == (p + p) % Modulus

ScalarMul(p, s) == (p * s) % Modulus

\* PrimeField::to_repr: the canonical little-endian bytes
ReprLen == (NUM_BITS + 7) \div 8

to_repr(x) == [k \in 1..ReprLen |-> (x \div (256 ^ (k - 1))) % 256]

(***************************************************************************)
(* multiexp_serial (lines 148-236)                                         *)
(***************************************************************************)
\* floor(e^k) for k = 1..7
ExpFloor == <<2, 7, 20, 54, 148, 403, 1096>>

\* (f64::from(n)).ln().ceil(): the least k with n <= e^k
ceil_ln(n) ==
    IF n <= 1 THEN 0
    ELSE CHOOSE k \in 1..Len(ExpFloor) :
            /\ n <= ExpFloor[k]
            /\ \A j \in 1..(k - 1) : n > ExpFloor[j]

\* the window width c
window(num_bases) ==
    IF num_bases < 4 THEN 1
    ELSE IF num_bases < 32 THEN 3
    ELSE ceil_ln(num_bases)

\* u64::from_le_bytes of the (at most 8) bytes from skip_bytes on
RECURSIVE le_bytes_from(_, _, _)
le_bytes_from(bytes, skip_bytes, k) ==
    IF k >= 8 \/ skip_bytes + k >= Len(bytes) THEN 0
    ELSE bytes[skip_bytes + k + 1] * (256 ^ k) + le_bytes_from(bytes, skip_bytes, k + 1)

get_at_no_shift(segment, c, bytes) ==
    LET skip_bits == segment * c
        skip_bytes == skip_bits \div 8
    IN IF skip_bytes >= (NUM_BITS + 7) \div 8 THEN 0
       ELSE le_bytes_from(bytes, skip_bytes, 0) % (2 ^ c)

get_at(segment, c, bytes) ==
    LET skip_bits == segment * c
        skip_bytes == skip_bits \div 8
    IN IF skip_bytes >= (NUM_BITS + 7) \div 8 THEN 0
       ELSE LET tmp == le_bytes_from(bytes, skip_bytes, 0)
            IN (tmp \div (2 ^ (skip_bits - (skip_bytes * 8)))) % (2 ^ c)

segments_floor(c) == NUM_BITS \div c

\* let segments = (C::Scalar::NUM_BITS as usize / c) + 1
segments(c) == (NUM_BITS \div c) + 1

\* enum Bucket { None, Affine(C), Projective(C::Curve) }
BucketNone == [tag |-> "None", val |-> identity]

bucket_add_assign_overwrite(bucket, other) ==
    CASE bucket.tag = "None" -> [tag |-> "Affine", val |-> other]
      [] bucket.tag = "Affine" -> [tag |-> "Projective", val |-> other]
      [] bucket.tag = "Projective" -> [tag |-> "Projective", val |-> GAdd(bucket.val, other)]

\* Bucket::add_assign
bucket_add_assign(bucket, other) ==
    CASE bucket.tag = "None" -> [tag |-> "Affine", val |-> other]
      [] bucket.tag = "Affine" -> [tag |-> "Projective", val |-> GAdd(bucket.val, other)]
      [] bucket.tag = "Projective" -> [tag |-> "Projective", val |-> GAdd(bucket.val, other)]

\* Bucket::add
bucket_add(bucket, other) ==
    CASE bucket.tag = "None" -> other
      [] bucket.tag = "Affine" -> GAdd(other, bucket.val)
      [] bucket.tag = "Projective" -> GAdd(other, bucket.val)

\* for _ in 0..c { *acc = acc.double(); }
double_times(acc, c) == Loop(LAMBDA x, k : GDouble(x), acc, 0, c)

\* the loop over coeffs.iter().zip(bases.iter())
fill_buckets(reprs, bases, current_segment, c) ==
    Loop(LAMBDA buckets, i :
            LET coeff == get_at(current_segment, c, reprs[i + 1])
            IN IF coeff # 0
               THEN [buckets EXCEPT ![coeff] = bucket_add_assign(@, bases[i + 1])]
               ELSE buckets,
         [j \in 1..((2 ^ c) - 1) |-> BucketNone],
         0, Min(Len(reprs), Len(bases)))

\* summation by parts: the loop over buckets.into_iter().rev()
sum_by_parts(buckets, acc) ==
    Loop(LAMBDA st, i :
            LET rs == bucket_add(buckets[Len(buckets) - i], st.running_sum)
            IN [running_sum |-> rs, acc |-> GAdd(st.acc, rs)],
         [running_sum |-> identity, acc |-> acc],
         0, Len(buckets)).acc

\* the body of the loop over the segments
segment_step(reprs, bases, c, current_segment, acc) ==
    sum_by_parts(fill_buckets(reprs, bases, current_segment, c), double_times(acc, c))

multiexp_serial(coeffs, bases, acc) ==
    LET reprs == [i \in 1..Len(coeffs) |-> to_repr(coeffs[i])]
        c == window(Len(bases))
    IN \* for current_segment in (0..segments).rev()
       Loop(LAMBDA x, k : segment_step(reprs, bases, c, segments(c) - 1 - k, x),
            acc, 0, segments(c))

(***************************************************************************)
(* small_multiexp (lines 240-260)                                          *)
(***************************************************************************)
\* (byte >> bit_idx) & 1
bit_of(byte, bit_idx) == (byte \div (2 ^ bit_idx)) % 2

\* for coeff_idx in 0..coeffs.len()
small_add_loop(reprs, bases, byte_idx, bit_idx, acc) ==
    Loop(LAMBDA x, coeff_idx :
            IF bit_of(reprs[coeff_idx + 1][byte_idx + 1], bit_idx) # 0
            THEN GAdd(x, bases[coeff_idx + 1])
            ELSE x,
         acc, 0, Len(reprs))

\* for bit_idx in (0..8).rev()
small_bit_loop(reprs, bases, byte_idx, acc) ==
    Loop(LAMBDA x, k : small_add_loop(reprs, bases, byte_idx, 7 - k, GDouble(x)),
         acc, 0, 8)

small_multiexp(coeffs, bases) ==
    LET reprs == [i \in 1..Len(coeffs) |-> to_repr(coeffs[i])]
        num_bytes == (NUM_BITS + 7) \div 8
    IN \* for byte_idx in (0..num_bytes).rev()
       Loop(LAMBDA x, k : small_bit_loop(reprs, bases, num_bytes - 1 - k, x),
            identity, 0, num_bytes)

(***************************************************************************)
(* cpu_multiexp (lines 290-333)                                            *)
(***************************************************************************)
chunks_len_floor(len, size) == len \div size

\* slice.chunks(size).len()
chunks_len(len, size) == (len + size - 1) \div size

\* the k-th (from 0) chunk of slice.chunks(size): the last one may be shorter
chunk_of(slice, size, k) ==
    SubSeq(slice, k * size + 1, Min((k + 1) * size, Len(slice)))

msm_chunk_ceil(n, P) == (n + P - 1) \div P

\* let chunk = coeffs.len() / num_threads
msm_chunk(n, P) == n \div P

\* results.iter().fold(identity, |a, b| a + b)
fold_add(xs) == Loop(LAMBDA x, k : GAdd(x, xs[k + 1]), identity, 0, Len(xs))

MaxLen == 3

CoeffPool == {0, 1, 171, 256}

BasePool == {1, 5}

LongLens == {4, 9, 32, 55, 64}

Seeds == {<<3, 7, 1, 2>>, <<200, 101, 9, 30>>}

\* every input of n pairs over the pools
ShortInputs(n) ==
    {[coeffs |-> cs, bases |-> bs] :
        cs \in [1..n -> CoeffPool], bs \in [1..n -> BasePool]}

\* the inputs of n pairs generated from the seeds
LongInputs(n) ==
    {[coeffs |-> [i \in 1..n |-> (s[1] + i * s[2]) % Modulus],
      bases |-> [i \in 1..n |-> (s[3] + i * s[4]) % Modulus]] : s \in Seeds}

NoRet == [best |-> <<>>, small |-> <<>>, serial |-> <<>>]

notMsm == <<tasks, a>>

MsmInit ==
    /\ num_threads \in Threads
    /\ cursor = 0
    /\ pc = "call"
    /\ \/ \E n \in 0..MaxLen : inp \in ShortInputs(n)
       \/ \E n \in LongLens : inp \in LongInputs(n)
    /\ ret = NoRet
    /\ results = <<>> /\ pending = {}
    /\ v = <<>> /\ tasks = <<>> /\ a = <<>>

\* cpu_multiexp, coeffs.len() > num_threads: the scope spawns one worker per
\* zipped (coeffs chunk, bases chunk, results slot)
CpuMultiexpFork ==
    /\ pc = "call"
    /\ Len(inp.coeffs) = Len(inp.bases)
    /\ Len(inp.coeffs) > num_threads
    /\ LET chunk == msm_chunk(Len(inp.coeffs), num_threads)
           num_chunks == chunks_len(Len(inp.coeffs), chunk)
       IN /\ results' = [k \in 1..num_chunks |-> identity]
          /\ pending' = 1..Min(num_chunks, chunks_len(Len(inp.bases), chunk))
          /\ v' = [k \in 1..num_chunks |-> 0]
    /\ pc' = "scope"
    /\ UNCHANGED <<cursor, num_threads, inp, ret, notMsm>>

\* one spawned worker: multiexp_serial(coeffs, bases, acc) on its chunk
CpuMultiexpWorker(k) ==
    /\ pc = "scope"
    /\ k \in pending
    /\ LET chunk == msm_chunk(Len(inp.coeffs), num_threads)
       IN results' = [results EXCEPT ![k] =
             multiexp_serial(chunk_of(inp.coeffs, chunk, k - 1),
                             chunk_of(inp.bases, chunk, k - 1), @)]
    /\ pending' = pending \ {k}
    /\ v' = [v EXCEPT ![k] = @ + 1]
    /\ UNCHANGED <<cursor, num_threads, pc, inp, ret, notMsm>>

\* the scope has joined: fold the partial sums
CpuMultiexpJoin ==
    /\ pc = "scope"
    /\ pending = {}
    /\ ret' = [ret EXCEPT !.best = <<fold_add(results)>>]
    /\ pc' = "done"
    /\ UNCHANGED <<cursor, num_threads, inp, results, pending, v, notMsm>>

\* cpu_multiexp, coeffs.len() <= num_threads
CpuMultiexpSequential ==
    /\ pc = "call"
    /\ Len(inp.coeffs) = Len(inp.bases)
    /\ ~(Len(inp.coeffs) > num_threads)
    /\ ret' = [ret EXCEPT !.best = <<multiexp_serial(inp.coeffs, inp.bases, identity)>>]
    /\ v' = <<1>>
    /\ pc' = "done"
    /\ UNCHANGED <<cursor, num_threads, inp, results, pending, notMsm>>

\* the cross-check calls on the same inputs
SmallMultiexp ==
    /\ pc = "done"
    /\ ret.small = <<>>
    /\ ret' = [ret EXCEPT !.small = <<small_multiexp(inp.coeffs, inp.bases)>>]
    /\ UNCHANGED <<cursor, num_threads, pc, inp, results, pending, v, notMsm>>

MultiexpSerial ==
    /\ pc = "done"
    /\ ret.serial = <<>>
    /\ ret' = [ret EXCEPT !.serial = <<multiexp_serial(inp.coeffs, inp.bases, identity)>>]
    /\ UNCHANGED <<cursor, num_threads, pc, inp, results, pending, v, notMsm>>

MsmNext ==
    \/ CpuMultiexpFork
    \/ \E k \in 1..Len(results) : CpuMultiexpWorker(k)
    \/ CpuMultiexpJoin
    \/ CpuMultiexpSequential
    \/ SmallMultiexp
    \/ MultiexpSerial

SpecMsm == MsmInit /\ [][MsmNext]_vars

(***************************************************************************)
(* Claims about the multi-scalar multiplication                            *)
(***************************************************************************)
\* the sum of coeffs[i] * bases[i], each by one direct scalar multiplication
DirectSum(coeffs, bases) ==
    Loop(LAMBDA x, k : GAdd(x, ScalarMul(bases[k + 1], coeffs[k + 1])),
         identity, 0, Len(coeffs))

\* C4: whatever the thread count and the order in which the chunk workers
\* ran, the value cpu_multiexp returns is the sum over i of
\* coeffs[i] * bases[i], in the chunked branch and in the sequential one.
C4_MultiexpIsDirectSum ==
    ret.best # <<>> =>
        ret.best[1] = DirectSum(inp.coeffs, inp.bases)

C4_Witness ==
    /\ pc = "done"
    /\ Len(inp.coeffs) = 64
    /\ num_threads = 3
    /\ Len(results) = 4
    /\ ret.best # <<>>
    /\ ret.best[1] # identity

\* C5: on the same equal-length inputs small_multiexp and multiexp_serial
\* started from the identity return the same group element.
C5_SmallEqualsBucketed ==
    (ret.small # <<>> /\ ret.serial # <<>>) => ret.small[1] = ret.serial[1]

C5_Witness ==
    /\ ret.small # <<>>
    /\ ret.serial # <<>>
    /\ Len(inp.coeffs) = 55
    /\ ret.serial[1] # identity

(***************************************************************************)
(* cpu_fft (lines 412-490) and recursive_butterfly_arithmetic (574-611)    *)
(***************************************************************************)
\* the loop of log2_floor, from `pow` on
RECURSIVE log2_floor_from(_, _)
log2_floor_from(num, pow) ==
    IF 2 ^ (pow + 1) <= num THEN log2_floor_from(num, pow + 1) ELSE pow

\* assert!(num > 0), then the loop
log2_floor(num) == IF num > 0 THEN log2_floor_from(num, 0) ELSE PANIC

bitreverse_none(n, l) == n

bitreverse(n, l) ==
    Loop(LAMBDA st, k : [r |-> (st.r * 2) + (st.n % 2), n |-> st.n \div 2],
         [r |-> 0, n |-> n], 0, l).r

\* a.swap(i, j), both counted from 0
swap(arr, i, j) == [arr EXCEPT ![i + 1] = arr[j + 1], ![j + 1] = arr[i + 1]]

\* for k in 0..n { let rk = bitreverse(k, log_n); if k < rk { a.swap(rk, k) } }
bit_reversal(arr, log_n) ==
    Loop(LAMBDA x, k :
            LET rk == bitreverse(k, log_n)
            IN IF k < rk THEN swap(x, rk, k) ELSE x,
         arr, 0, Len(arr))

\* (0..(n / 2)).scan(ONE, |w, _| { let tw = *w; *w *= &omega; Some(tw) })
precompute_twiddles(n, omega) ==
    Loop(LAMBDA st, i : [w |-> Mul(st.w, omega), out |-> Append(st.out, st.w)],
         [w |-> ONE, out |-> <<>>], 0, n \div 2).out

twiddle_index_low(i, twiddle_chunk) == i * twiddle_chunk

\* the twiddle of the i-th pair after the first one, in the layer loop
twiddle_index(i, twiddle_chunk) == (i + 1) * twiddle_chunk

\* one block of a layer: the first pair without a twiddle, the others with
butterfly_block(coeffs, twiddle_chunk, twiddles) ==
    LET half == Len(coeffs) \div 2
        t(p) == IF p = 0 THEN coeffs[half + 1]
                ELSE Mul(coeffs[half + p + 1],
                         twiddles[twiddle_index(p - 1, twiddle_chunk) + 1])
    IN [k \in 1..Len(coeffs) |->
           IF k <= half THEN Add(coeffs[k], t(k - 1))
           ELSE Sub(coeffs[k - half], t(k - half - 1))]

\* a.chunks_mut(chunk).for_each(...): every block of the layer
fft_layer(arr, chunk, twiddle_chunk, twiddles) ==
    LET blocks == [b \in 0..((Len(arr) \div chunk) - 1) |->
                      butterfly_block(SubSeq(arr, b * chunk + 1, (b + 1) * chunk),
                                      twiddle_chunk, twiddles)]
    IN [k \in 1..Len(arr) |-> blocks[(k - 1) \div chunk][((k - 1) % chunk) + 1]]

\* the iterative strategy: for _ in 0..log_n
fft_iterative(arr, log_n, twiddles) ==
    Loop(LAMBDA st, layer :
            [arr |-> fft_layer(st.arr, st.chunk, st.twiddle_chunk, twiddles),
             chunk |-> st.chunk * 2,
             twiddle_chunk |-> st.twiddle_chunk \div 2],
         [arr |-> arr, chunk |-> 2, twiddle_chunk |-> Len(arr) \div 2],
         0, log_n).arr

rec_twiddle_index_low(i, twiddle_chunk) == i * twiddle_chunk

\* the twiddle of the i-th pair after the first one, in the recursive combine
rec_twiddle_index(i, twiddle_chunk) == (i + 1) * twiddle_chunk

\* the combine step of recursive_butterfly_arithmetic on left ++ right
butterfly_combine(left, right, twiddle_chunk, twiddles) ==
    LET half == Len(left)
        t(p) == IF p = 0 THEN right[1]
                ELSE Mul(right[p + 1],
                         twiddles[rec_twiddle_index(p - 1, twiddle_chunk) + 1])
    IN [k \in 1..(2 * half) |->
           IF k <= half THEN Add(left[k], t(k - 1))
           ELSE Sub(left[k - half], t(k - half - 1))]

RECURSIVE recursive_butterfly_arithmetic(_, _, _, _)
recursive_butterfly_arithmetic(arr, n, twiddle_chunk, twiddles) ==
    IF n = 2
    THEN <<Add(arr[1], arr[2]), Sub(arr[1], arr[2])>>
    ELSE LET left == recursive_butterfly_arithmetic(
                        SubSeq(arr, 1, n \div 2), n \div 2, twiddle_chunk * 2, twiddles)
             right == recursive_butterfly_arithmetic(
                        SubSeq(arr, (n \div 2) + 1, Len(arr)), n \div 2,
                        twiddle_chunk * 2, twiddles)
         IN butterfly_combine(left, right, twiddle_chunk, twiddles)

\* cpu_fft once the length assertion has passed
cpu_fft(arr, omega, log_n, threads) ==
    LET log_threads == log2_floor(threads)
        n == Len(arr)
        swapped == bit_reversal(arr, log_n)
        twiddles == precompute_twiddles(n, omega)
    IN IF log_n <= log_threads
       THEN fft_iterative(swapped, log_n, twiddles)
       ELSE recursive_butterfly_arithmetic(swapped, n, 1, twiddles)

\* g_to_lagrange: n_inv = TWO_INV.pow_vartime([k])
n_inv(k) == pow_vartime(invert(2), k)

MaxLogN == 3

\* up to this log_n every sequence over FftPool is an input
ExhaustiveLogN == 1

FftPool == {0, 1}

FftSeeds == {<<1, 0, 0>>, <<0, 1, 0>>, <<5, 3, 1>>, <<250, 77, 131>>, <<0, 0, 256>>}

\* a pool with which the layer loop is chosen up to log_n = 3
ManyThreads == 8

\* floor(log2(P)) is 0, 1 and 3: the recursion at every log_n >= 1, both
\* strategies at log_n = 2 and 3
FftThreads == {1, MaxThreads, ManyThreads}

\* the elements of multiplicative order exactly n, n a power of two
RootsOfOrder(n) ==
    {w \in 1..(Modulus - 1) :
        /\ pow_vartime(w, n) = ONE
        /\ (n > 1 => pow_vartime(w, n \div 2) # ONE)}

FftSeqs(log_n) ==
    (IF log_n <= ExhaustiveLogN THEN [1..(2 ^ log_n) -> FftPool] ELSE {})
    \cup {[i \in 1..(2 ^ log_n) |-> (s[1] + s[2] * i + s[3] * i * i) % Modulus] :
             s \in FftSeeds}

FftInputs(k) ==
    {[a |-> s, omega |-> w, log_n |-> k] : s \in FftSeqs(k), w \in RootsOfOrder(2 ^ k)}

(***************************************************************************)
(* eval_polynomial (lines 641-666)                                         *)
(***************************************************************************)
\* poly.iter().rev().fold(ZERO, |acc, coeff| acc * point + coeff)
evaluate(poly, point) ==
    Loop(LAMBDA acc, k : Add(Mul(acc, point), poly[Len(poly) - k]),
         ZERO, 0, Len(poly))

eval_chunk_size(n, threads) == (n + threads - 1) \div threads

eval_start_unscaled(chunk_idx, chunk_size) == chunk_idx

\* let start = chunk_idx * chunk_size
eval_start(chunk_idx, chunk_size) == chunk_idx * chunk_size

\* how many (out, chunk) pairs parts.chunks_mut(1).zip(poly.chunks(chunk_size)) has
eval_zip_len(n, threads) ==
    Min(threads, chunks_len(n, eval_chunk_size(n, threads)))

\* let mut parts = vec![ZERO; num_threads]
eval_parts_init(threads) == [i \in 1..threads |-> ZERO]

\* the closure spawned for chunk chunk_idx: the value it writes to out[0]
eval_part(poly, point, threads, chunk_idx) ==
    LET chunk_size == eval_chunk_size(Len(poly), threads)
    IN Mul(evaluate(chunk_of(poly, chunk_size, chunk_idx), point),
           pow_vartime(point, eval_start(chunk_idx, chunk_size)))

\* parts after the scope: slot i set by its worker, the others still ZERO
eval_parts(poly, point, threads) ==
    [i \in 1..threads |->
        IF i <= eval_zip_len(Len(poly), threads)
        THEN eval_part(poly, point, threads, i - 1)
        ELSE eval_parts_init(threads)[i]]

\* parts.iter().fold(ZERO, |acc, coeff| acc + coeff)
fold_parts(parts) == Loop(LAMBDA acc, k : Add(acc, parts[k + 1]), ZERO, 0, Len(parts))

eval_polynomial(poly, point, threads) ==
    IF Len(poly) * 2 < threads
    THEN evaluate(poly, point)
    ELSE fold_parts(eval_parts(poly, point, threads))

MaxPolyLen == 5

PolyPool == {0, 1, 200}

PointPool == {0, 1, 2, 100, 256}

EvalInputs(n) ==
    {[poly |-> p, point |-> x] : p \in [1..n -> PolyPool], x \in PointPool}

EvalInit ==
    /\ num_threads \in Threads
    /\ cursor = 0
    /\ pc = "call"
    /\ \E n \in 0..MaxPolyLen : inp \in EvalInputs(n)
    /\ ret = [value |-> <<>>]
    /\ v = <<>> /\ tasks = <<>> /\ results = <<>> /\ pending = {} /\ a = <<>>

\* eval_polynomial, poly.len() * 2 < num_threads
EvalSequential ==
    /\ pc = "call"
    /\ Len(inp.poly) * 2 < num_threads
    /\ ret' = [value |-> <<eval_polynomial(inp.poly, inp.point, num_threads)>>]
    /\ pc' = "done"
    /\ UNCHANGED <<cursor, num_threads, inp, v, tasks, results, pending, a>>

\* the else branch up to the end of the spawning loop: `results` is parts
EvalFork ==
    /\ pc = "call"
    /\ ~(Len(inp.poly) * 2 < num_threads)
    /\ results' = eval_parts_init(num_threads)
    /\ pending' = 1..eval_zip_len(Len(inp.poly), num_threads)
    /\ pc' = "scope"
    /\ UNCHANGED <<cursor, num_threads, inp, ret, v, tasks, a>>

\* one spawned closure: out[0] = evaluate(poly, point) * point^start
EvalWorker(k) ==
    /\ pc = "scope"
    /\ k \in pending
    /\ results' = [results EXCEPT ![k] =
                      eval_part(inp.poly, inp.point, num_threads, k - 1)]
    /\ pending' = pending \ {k}
    /\ UNCHANGED <<cursor, num_threads, pc, inp, ret, v, tasks, a>>

\* the scope has joined: fold the parts
EvalJoin ==
    /\ pc = "scope"
    /\ pending = {}
    /\ ret' = [value |-> <<fold_parts(results)>>]
    /\ pc' = "done"
    /\ UNCHANGED <<cursor, num_threads, inp, v, tasks, results, pending, a>>

EvalNext ==
    \/ EvalSequential
    \/ EvalFork
    \/ \E k \in 1..Len(results) : EvalWorker(k)
    \/ EvalJoin

SpecEval == EvalInit /\ [][EvalNext]_vars

(***************************************************************************)
(* kate_division (lines 683-704)                                           *)
(***************************************************************************)
kate_divisor_kept(b) == b

\* b = -b
kate_divisor(b) == Neg(b)

\* vec![ZERO; a.len() - 1] panics on the empty a: the subtraction overflows
kate_panics(coeffs) == Len(coeffs) = 0

kate_division(coeffs, b) ==
    LET nb == kate_divisor(b)
        n == Len(coeffs)
    IN IF kate_panics(coeffs) THEN PANIC
       ELSE \* for (q, r) in q.iter_mut().rev().zip(a.rev())
            Loop(LAMBDA st, k :
                    LET lead_coeff == Sub(coeffs[n - k], st.tmp)
                    IN [q |-> [st.q EXCEPT ![n - 1 - k] = lead_coeff],
                        tmp |-> Mul(lead_coeff, nb)],
                 [q |-> [i \in 1..(n - 1) |-> ZERO], tmp |-> ZERO],
                 0, n - 1).q

\* q(X) * (X - b): one coefficient more than q
MulByLinear(q, b) ==
    [i \in 1..(Len(q) + 1) |->
        Sub(IF i >= 2 THEN q[i - 1] ELSE ZERO,
            IF i <= Len(q) THEN Mul(b, q[i]) ELSE ZERO)]

KateInputs(n) ==
    {[q |-> q, b |-> b, a |-> MulByLinear(q, b)] :
        q \in [1..n -> PolyPool \cup {2}], b \in PointPool}

KateInit ==
    /\ num_threads \in Threads
    /\ cursor = 0
    /\ pc = "call"
    /\ \/ \E n \in 0..MaxLen : inp \in KateInputs(n)
       \/ inp \in {[q |-> <<>>, b |-> b, a |-> <<>>] : b \in PointPool}
    /\ ret = [q |-> <<>>]
    /\ v = <<>> /\ tasks = <<>> /\ results = <<>> /\ pending = {} /\ a = <<>>

KateDivision ==
    /\ pc = "call"
    /\ IF kate_panics(inp.a)
       THEN /\ pc' = "panicked"
            /\ UNCHANGED ret
       ELSE /\ ret' = [q |-> <<kate_division(inp.a, inp.b)>>]
            /\ pc' = "done"
    /\ UNCHANGED <<cursor, num_threads, inp, v, tasks, results, pending, a>>

KateNext == KateDivision

SpecKate == KateInit /\ [][KateNext]_vars

(***************************************************************************)
(* lagrange_interpolate (lines 773-826)                                    *)
(***************************************************************************)
\* points.iter().enumerate().filter(|&(k, _)| k != j): the i-th index kept
other_index(j, i) == IF i < j THEN i ELSE i + 1

\* the denominators x_j - x_k, k != j, for every j
lagrange_denoms(points) ==
    [j \in 1..Len(points) |->
        [i \in 1..(Len(points) - 1) |-> Sub(points[j], points[other_index(j, i)])]]

\* BatchInvert::batch_invert: every nonzero element is inverted, zeros are skipped
batch_invert(denoms) ==
    [j \in 1..Len(denoms) |->
        [i \in 1..Len(denoms[j]) |->
            IF denoms[j][i] = ZERO THEN ZERO ELSE invert(denoms[j][i])]]

\* the accumulator batch_invert inverts and unwraps: the product of the
\* elements that are not zero
batch_invert_acc(denoms) ==
    Loop(LAMBDA acc, j :
            Loop(LAMBDA acc2, i :
                    IF denoms[j + 1][i + 1] = ZERO THEN acc2
                    ELSE Mul(acc2, denoms[j + 1][i + 1]),
                 acc, 0, Len(denoms[j + 1])),
         ONE, 0, Len(denoms))

\* the inputs on which lagrange_interpolate panics: the assert_eq on the
\* lengths, or the unwrap of the inverse of a zero accumulator
lagrange_panics(points, evals) ==
    \/ Len(points) # Len(evals)
    \/ /\ Len(points) # 1
       /\ batch_invert_acc(lagrange_denoms(points)) = ZERO

linear_step_unsigned(tmp, x_k, denom) ==
    [i \in 1..(Len(tmp) + 1) |->
        Add(Mul(IF i <= Len(tmp) THEN tmp[i] ELSE ZERO, Mul(denom, x_k)),
            Mul(IF i >= 2 THEN tmp[i - 1] ELSE ZERO, denom))]

\* product = tmp * (X - x_k) * denom, one coefficient more than tmp
linear_step(tmp, x_k, denom) ==
    [i \in 1..(Len(tmp) + 1) |->
        Add(Mul(IF i <= Len(tmp) THEN tmp[i] ELSE ZERO, Mul(Neg(denom), x_k)),
            Mul(IF i >= 2 THEN tmp[i - 1] ELSE ZERO, denom))]

\* tmp after the loop over the x_k, k != j
lagrange_basis(points, denoms_j, j) ==
    Loop(LAMBDA tmp, k :
            linear_step(tmp, points[other_index(j, k + 1)], denoms_j[k + 1]),
         <<ONE>>, 0, Len(denoms_j))

lagrange_interpolate(points, evals) ==
    IF Len(points) = 1
    THEN <<evals[1]>>
    ELSE LET n == Len(points)
             denoms == batch_invert(lagrange_denoms(points))
         IN Loop(LAMBDA final_poly, j :
                    LET tmp == lagrange_basis(points, denoms[j + 1], j + 1)
                    IN [i \in 1..n |->
                           IF i <= Len(tmp)
                           THEN Add(final_poly[i], Mul(tmp[i], evals[j + 1]))
                           ELSE final_poly[i]],
                 [i \in 1..n |-> ZERO], 0, n)

\* the test draws 5 points
MaxPoints == 5

EvalPool == {0, 77}

Injective(s) == \A i, j \in 1..Len(s) : i # j => s[i] # s[j]

LagrangeInputs(n) ==
    {[points |-> p, evals |-> e] :
        p \in {s \in [1..n -> PointPool] : Injective(s)}, e \in [1..n -> EvalPool]}

\* the test up to the loop: 5 points and 5 evals drawn; `cursor` is the loop
\* variable coeffs, `v` the position of the inner loop over the points,
\* `ret` the poly of this iteration and the values eval_polynomial has returned
LagrangeInit ==
    /\ num_threads \in Threads
    /\ cursor = 0
    /\ pc = "loop"
    /\ inp \in LagrangeInputs(MaxPoints)
    /\ ret = [poly |-> <<>>, at_points |-> <<>>]
    /\ v = 0
    /\ tasks = <<>> /\ results = <<>> /\ pending = {} /\ a = <<>>

\* &points[0..coeffs]
Prefix(s, n) == SubSeq(s, 1, n)

\* one iteration of `for coeffs in 0..5` up to the inner loop: the slices, the
\* call of lagrange_interpolate and the assert_eq on the length
LagrangeInterpolate ==
    /\ pc = "loop"
    /\ cursor < MaxPoints
    /\ LET points == Prefix(inp.points, cursor)
           evals == Prefix(inp.evals, cursor)
       IN IF lagrange_panics(points, evals)
          THEN /\ pc' = "panicked"
               /\ UNCHANGED <<ret, v>>
          ELSE LET poly == lagrange_interpolate(points, evals)
               IN /\ ret' = [poly |-> <<poly>>, at_points |-> <<>>]
                  /\ IF Len(poly) = Len(points)
                     THEN pc' = "points" /\ v' = 1
                     ELSE pc' = "panicked" /\ v' = v
    /\ UNCHANGED <<cursor, num_threads, inp, tasks, results, pending, a>>

\* assert_eq!(eval_polynomial(&poly, *point), *eval) once the call has returned
\* `value`, and the step to the next point
LagrangeAssert(value) ==
    /\ ret' = [ret EXCEPT !.at_points = Append(@, value)]
    /\ IF value = inp.evals[v]
       THEN pc' = "points" /\ v' = v + 1
       ELSE pc' = "panicked" /\ v' = v

\* eval_polynomial(&poly, *point), the sequential branch
LagrangeEvalSequential ==
    /\ pc = "points"
    /\ v <= cursor
    /\ Len(ret.poly[1]) * 2 < num_threads
    /\ LagrangeAssert(eval_polynomial(ret.poly[1], inp.points[v], num_threads))
    /\ UNCHANGED <<cursor, num_threads, inp, tasks, results, pending, a>>

\* eval_polynomial(&poly, *point), the else branch up to the end of the
\* spawning loop
LagrangeEvalFork ==
    /\ pc = "points"
    /\ v <= cursor
    /\ ~(Len(ret.poly[1]) * 2 < num_threads)
    /\ results' = eval_parts_init(num_threads)
    /\ pending' = 1..eval_zip_len(Len(ret.poly[1]), num_threads)
    /\ pc' = "scope"
    /\ UNCHANGED <<cursor, num_threads, inp, ret, v, tasks, a>>

\* one spawned closure of that call
LagrangeEvalWorker(k) ==
    /\ pc = "scope"
    /\ k \in pending
    /\ results' = [results EXCEPT ![k] =
                      eval_part(ret.poly[1], inp.points[v], num_threads, k - 1)]
    /\ pending' = pending \ {k}
    /\ UNCHANGED <<cursor, num_threads, pc, inp, ret, v, tasks, a>>

\* the scope has joined: the fold, the return and the assert_eq
LagrangeEvalJoin ==
    /\ pc = "scope"
    /\ pending = {}
    /\ LagrangeAssert(fold_parts(results))
    /\ UNCHANGED <<cursor, num_threads, inp, tasks, results, pending, a>>

\* the inner loop is over: poly is dropped and coeffs advances
LagrangeNextCoeffs ==
    /\ pc = "points"
    /\ v > cursor
    /\ cursor' = cursor + 1
    /\ v' = 0
    /\ ret' = [poly |-> <<>>, at_points |-> <<>>]
    /\ pc' = "loop"
    /\ UNCHANGED <<num_threads, inp, tasks, results, pending, a>>

\* coeffs has run through 0..5
LagrangeDone ==
    /\ pc = "loop"
    /\ cursor = MaxPoints
    /\ pc' = "done"
    /\ UNCHANGED <<cursor, num_threads, inp, ret, v, tasks, results, pending, a>>

LagrangeNext ==
    \/ LagrangeInterpolate
    \/ LagrangeEvalSequential
    \/ LagrangeEvalFork
    \/ \E k \in 1..Len(results) : LagrangeEvalWorker(k)
    \/ LagrangeEvalJoin
    \/ LagrangeNextCoeffs
    \/ LagrangeDone

SpecLagrange == LagrangeInit /\ [][LagrangeNext]_vars

MaxAnyPoints == 3

\* points and evals of the same length, the points not necessarily distinct
LagrangeAnyInputs(n) ==
    {[points |-> p, evals |-> e] : p \in [1..n -> PointPool], e \in [1..n -> EvalPool]}

LagrangeAnyInit ==
    /\ num_threads \in Threads
    /\ cursor = 0
    /\ pc = "call"
    /\ \E n \in 0..MaxAnyPoints : inp \in LagrangeAnyInputs(n)
    /\ ret = [poly |-> <<>>]
    /\ v = <<>> /\ tasks = <<>> /\ results = <<>> /\ pending = {} /\ a = <<>>

\* one call of lagrange_interpolate: it panics or returns the coefficients
LagrangeAnyCall ==
    /\ pc = "call"
    /\ IF lagrange_panics(inp.points, inp.evals)
       THEN /\ pc' = "panicked"
            /\ UNCHANGED ret
       ELSE /\ ret' = [poly |-> <<lagrange_interpolate(inp.points, inp.evals)>>]
            /\ pc' = "done"
    /\ UNCHANGED <<cursor, num_threads, inp, v, tasks, results, pending, a>>

LagrangeAnyNext == LagrangeAnyCall

SpecLagrangeAny == LagrangeAnyInit /\ [][LagrangeAnyNext]_vars

(***************************************************************************)
(* Claims about the polynomial utilities                                   *)
(***************************************************************************)
\* C8: for n pairwise distinct points and n arbitrary evals,
\* lagrange_interpolate returns exactly n coefficients and eval_polynomial of
\* the result at points[i] is evals[i] for every i: no assertion of the test
\* fails for the prefixes of length 0..4 it runs, every value eval_polynomial
\* has returned is the eval of its point, and the same holds of the 5 drawn
\* points taken together.
C8_InterpolateRoundTrip ==
    /\ pc # "panicked"
    /\ ret.poly # <<>> => Len(ret.poly[1]) = cursor
    /\ ret.at_points = Prefix(inp.evals, Len(ret.at_points))
    /\ pc = "points" => Len(ret.at_points) = v - 1
    /\ (pc = "loop" /\ cursor = 0) =>
          /\ ~lagrange_panics(inp.points, inp.evals)
          /\ LET poly == lagrange_interpolate(inp.points, inp.evals)
             IN /\ Len(poly) = MaxPoints
                /\ \A i \in 1..MaxPoints :
                      eval_polynomial(poly, inp.points[i], num_threads) = inp.evals[i]

C8_Witness ==
    /\ pc = "points"
    /\ cursor = 4
    /\ v = 5
    /\ inp.evals[1] # inp.evals[2]
    /\ ret.at_points = Prefix(inp.evals, 4)
    /\ ret.poly[1][4] # ZERO

\* C9: for p(X) = q(X) * (X - b), kate_division(p, b) is exactly q.
C9_KateDivisionIsQuotient ==
    ret.q # <<>> => ret.q[1] = inp.q

C9_Witness ==
    /\ pc = "done"
    /\ Len(inp.q) = 3
    /\ inp.b = 100
    /\ inp.q[3] # ZERO
    /\ ret.q[1] = inp.q

\* the sum over i of poly[i] * point^i, with point^0 = ONE
PolySum(poly, point) ==
    Loop(LAMBDA acc, i : Add(acc, Mul(poly[i + 1], pow_vartime(point, i))),
         ZERO, 0, Len(poly))

\* the (start, end) index ranges of the chunks zipped with a slot of parts
EvalChunkRange(n, threads, i) ==
    LET chunk_size == eval_chunk_size(n, threads)
    IN {k \in 0..(n - 1) : (i - 1) * chunk_size <= k /\ k < i * chunk_size}

\* C10: eval_polynomial(poly, point) is the sum over i of poly[i] * point^i;
\* in the chunked branch (2 * n >= P) every coefficient lies in exactly one
\* chunk that has a slot, each slot holds its chunk's Horner sum times point
\* to the index of the chunk's first coefficient, and the slots add up to the
\* sequential Horner result.
C10_EvalPolynomial ==
    pc = "done" =>
        LET n == Len(inp.poly)
            P == num_threads
            chunk_size == eval_chunk_size(n, P)
        IN /\ ret.value[1] = PolySum(inp.poly, inp.point)
           /\ 2 * n >= P =>
                /\ \A k \in 0..(n - 1) :
                      Cardinality({i \in 1..eval_zip_len(n, P) :
                                      k \in EvalChunkRange(n, P, i)}) = 1
                /\ \A i \in 1..eval_zip_len(n, P) :
                      results[i] =
                          Mul(evaluate(chunk_of(inp.poly, chunk_size, i - 1), inp.point),
                              pow_vartime(inp.point, (i - 1) * chunk_size))
                /\ fold_parts(results) = evaluate(inp.poly, inp.point)

C10_Witness ==
    /\ pc = "done"
    /\ Len(inp.poly) = 5
    /\ num_threads = 3
    /\ inp.point = 2
    /\ inp.poly[5] # ZERO
    /\ results[3] # ZERO
    /\ ret.value[1] # ZERO

(***************************************************************************)
(* evaluate_vanishing_polynomial (lines 828-846)                           *)
(***************************************************************************)
\* roots.iter().fold(ONE, |acc, point| (z - point) * acc)
vanishing_evaluate(roots, z) ==
    Loop(LAMBDA acc, k : Mul(Sub(z, roots[k + 1]), acc), ONE, 0, Len(roots))

\* let chunk_size = (n + num_threads - 1) / num_threads
vanishing_chunk_size(n, threads) == (n + threads - 1) \div threads

vanishing_parts_zero(threads) == [i \in 1..threads |-> ZERO]

\* let mut parts = vec![ONE; num_threads]
vanishing_parts(threads) == [i \in 1..threads |-> ONE]

\* how many (out, roots) pairs parts.chunks_mut(1).zip(roots.chunks(chunk_size)) has
vanishing_zip_len(n, threads) ==
    Min(chunks_len(threads, 1), chunks_len(n, vanishing_chunk_size(n, threads)))

\* parts.iter().fold(ONE, |acc, part| acc * part)
vanishing_fold(parts) ==
    Loop(LAMBDA acc, k : Mul(acc, parts[k + 1]), ONE, 0, Len(parts))

MaxRoots == 4

RootPool == {0, 1, 200}

VanishingInputs(n) ==
    {[roots |-> r, z |-> x] : r \in [1..n -> RootPool], x \in PointPool}

VanishingInit ==
    /\ num_threads \in Threads
    /\ cursor = 0
    /\ pc = "call"
    /\ \E n \in 0..MaxRoots : inp \in VanishingInputs(n)
    /\ ret = [value |-> <<>>]
    /\ v = <<>> /\ tasks = <<>> /\ results = <<>> /\ pending = {} /\ a = <<>>

\* n * 2 < num_threads
VanishingSequential ==
    /\ pc = "call"
    /\ Len(inp.roots) * 2 < num_threads
    /\ ret' = [value |-> <<vanishing_evaluate(inp.roots, inp.z)>>]
    /\ pc' = "done"
    /\ UNCHANGED <<cursor, num_threads, inp, v, tasks, results, pending, a>>

\* the else branch up to the end of the spawning loop: `results` is parts
VanishingFork ==
    /\ pc = "call"
    /\ ~(Len(inp.roots) * 2 < num_threads)
    /\ results' = vanishing_parts(num_threads)
    /\ pending' = 1..vanishing_zip_len(Len(inp.roots), num_threads)
    /\ pc' = "scope"
    /\ UNCHANGED <<cursor, num_threads, inp, ret, v, tasks, a>>

\* one spawned worker: out[0] = evaluate(roots, z) on its chunk
VanishingWorker(k) ==
    /\ pc = "scope"
    /\ k \in pending
    /\ LET chunk_size == vanishing_chunk_size(Len(inp.roots), num_threads)
       IN results' = [results EXCEPT ![k] =
             vanishing_evaluate(chunk_of(inp.roots, chunk_size, k - 1), inp.z)]
    /\ pending' = pending \ {k}
    /\ UNCHANGED <<cursor, num_threads, pc, inp, ret, v, tasks, a>>

\* the scope has joined: fold the parts
VanishingJoin ==
    /\ pc = "scope"
    /\ pending = {}
    /\ ret' = [value |-> <<vanishing_fold(results)>>]
    /\ pc' = "done"
    /\ UNCHANGED <<cursor, num_threads, inp, v, tasks, results, pending, a>>

VanishingNext ==
    \/ VanishingSequential
    \/ VanishingFork
    \/ \E k \in 1..Len(results) : VanishingWorker(k)
    \/ VanishingJoin

SpecVanishing == VanishingInit /\ [][VanishingNext]_vars

\* the product over all roots r of (z - r), ONE for no roots; the factors are
\* taken from the last root to the first
RECURSIVE RootProduct(_, _)
RootProduct(roots, z) ==
    IF roots = <<>> THEN ONE
    ELSE (RootProduct(SubSeq(roots, 1, Len(roots) - 1), z)
            * ((z - roots[Len(roots)]) % Modulus)) % Modulus

\* C11: evaluate_vanishing_polynomial(roots, z) is the product over the roots
\* r of (z - r), and ONE for no roots; in the chunked branch the slots of
\* parts that were zipped with no chunk still hold ONE when the parts are
\* folded, so they leave the product unchanged.
C11_VanishingProduct ==
    pc = "done" =>
        /\ ret.value[1] = RootProduct(inp.roots, inp.z)
        /\ inp.roots = <<>> => ret.value[1] = ONE
        /\ ~(Len(inp.roots) * 2 < num_threads) =>
              /\ \A i \in 1..num_threads :
                    i > vanishing_zip_len(Len(inp.roots), num_threads)
                        => results[i] = ONE
              /\ ret.value[1] =
                    vanishing_fold(SubSeq(results, 1,
                        vanishing_zip_len(Len(inp.roots), num_threads)))

C11_Witness ==
    /\ pc = "done"
    /\ num_threads = 3
    /\ Len(inp.roots) = 4
    /\ vanishing_zip_len(4, 3) = 2
    /\ results[3] = ONE
    /\ results[1] # ONE /\ results[2] # ONE
    /\ ret.value[1] # ZERO /\ ret.value[1] # ONE

\* C12: lagrange_interpolate panics whenever two entries of points are equal:
\* once it has been called on such an input it has panicked and has returned
\* no coefficient vector.
C12_CoincidentPointsPanic ==
    (pc # "call" /\ ~Injective(inp.points)) =>
        (pc = "panicked" /\ ret.poly = <<>>)

(***************************************************************************)
(* cpu_fft step by step (lines 412-490): the length assertion, the         *)
(* bit-reversal loop, and either the layer loop or the fork/join recursion *)
(* of recursive_butterfly_arithmetic (lines 574-611). `tasks` holds the    *)
(* calls of recursive_butterfly_arithmetic: the outermost call is call 1   *)
(* and the two calls joined by call f are calls 2f and 2f + 1. `v` is the  *)
(* omega the call in progress was given.                                   *)
(***************************************************************************)
fft_size_at_least(n, log_n) == n >= 2 ^ log_n

\* assert_eq!(n, 1 << log_n)
fft_size_ok(n, log_n) == n = 2 ^ log_n

\* a call of recursive_butterfly_arithmetic on a[lo..lo + n], made by `parent`
Frame(lo, n, twiddle_chunk, parent) ==
    [lo |-> lo, n |-> n, twiddle_chunk |-> twiddle_chunk, parent |-> parent,
     st |-> "called"]

\* a call that has not been made yet
NoFrame == [lo |-> 0, n |-> 0, twiddle_chunk |-> 0, parent |-> 0, st |-> "none"]

\* the calls made by the join of call f
children(f) == {c \in 1..Len(tasks) : tasks[c].st # "none" /\ tasks[c].parent = f}

\* multicore::join returns once both closures have returned
Joined(f) == \A c \in children(f) : tasks[c].st = "done"

\* arr with arr[lo..lo + Len(part)] replaced by part
splice(arr, lo, part) ==
    [i \in 1..Len(arr) |->
        IF lo < i /\ i <= lo + Len(part) THEN part[i - lo] ELSE arr[i]]

rec_child_stride_same(twiddle_chunk) == twiddle_chunk

\* twiddle_chunk * 2, the stride handed to both recursive calls
rec_child_stride(twiddle_chunk) == twiddle_chunk * 2

\* longest input of the exhaustive part, right length or not
MaxFftLen == 5

RecSeeds == {<<5, 3, 1>>, <<250, 77, 131>>}

\* the smallest element of order exactly n
MinRoot(n) == CHOOSE w \in RootsOfOrder(n) : \A u \in RootsOfOrder(n) : w <= u

CpuFftShortInputs(len, k) ==
    {[a |-> s, omega |-> w, log_n |-> k] :
        s \in [1..len -> FftPool], w \in RootsOfOrder(2 ^ k)}

CpuFftLongInputs(k) ==
    {[a |-> [i \in 1..(2 ^ k) |-> (s[1] + s[2] * i + s[3] * i * i) % Modulus],
      omega |-> MinRoot(2 ^ k), log_n |-> k] : s \in RecSeeds}

CpuFftInit ==
    /\ num_threads \in FftThreads
    /\ cursor = 0
    /\ pc = "call"
    /\ \/ \E len \in 0..MaxFftLen, k \in 0..MaxLogN : inp \in CpuFftShortInputs(len, k)
       \/ inp \in CpuFftLongInputs(MaxLogN)
    /\ a = inp.a
    /\ v = inp.omega
    /\ ret = <<>>
    /\ tasks = <<>> /\ results = <<>> /\ pending = {}

CpuFftAssertAtLeast ==
    /\ pc = "call"
    /\ pc' = IF fft_size_at_least(Len(a), inp.log_n) THEN "swaps" ELSE "panicked"
    /\ UNCHANGED <<cursor, num_threads, inp, ret, v, tasks, results, pending, a>>

\* let n = a.len(); assert_eq!(n, 1 << log_n)
CpuFftAssert ==
    /\ pc = "call"
    /\ pc' = IF fft_size_ok(Len(a), inp.log_n) THEN "swaps" ELSE "panicked"
    /\ UNCHANGED <<cursor, num_threads, inp, ret, v, tasks, results, pending, a>>

\* one iteration of for k in 0..n { ... a.swap(rk, k) ... }
CpuFftSwap ==
    /\ pc = "swaps"
    /\ cursor < Len(a)
    /\ LET rk == bitreverse(cursor, inp.log_n)
       IN a' = IF cursor < rk THEN swap(a, rk, cursor) ELSE a
    /\ cursor' = cursor + 1
    /\ UNCHANGED <<num_threads, pc, inp, ret, v, tasks, results, pending>>

\* log_n <= log_threads: the layer loop
CpuFftIterative ==
    /\ pc = "swaps"
    /\ cursor = Len(a)
    /\ inp.log_n <= log2_floor(num_threads)
    /\ a' = fft_iterative(a, inp.log_n, precompute_twiddles(Len(a), v))
    /\ pc' = "done"
    /\ UNCHANGED <<cursor, num_threads, inp, ret, v, tasks, results, pending>>

\* else: recursive_butterfly_arithmetic(a, n, 1, &twiddles)
CpuFftRecursive ==
    /\ pc = "swaps"
    /\ cursor = Len(a)
    /\ ~(inp.log_n <= log2_floor(num_threads))
    /\ tasks' = [f \in 1..(Len(a) - 1) |->
                    IF f = 1 THEN Frame(0, Len(a), 1, 0) ELSE NoFrame]
    /\ pc' = "recursive"
    /\ UNCHANGED <<cursor, num_threads, inp, ret, v, results, pending, a>>

\* call f, n == 2: the single butterfly
RecBase(f) ==
    /\ pc = "recursive"
    /\ tasks[f].st = "called"
    /\ tasks[f].n = 2
    /\ LET lo == tasks[f].lo
       IN a' = splice(a, lo, <<Add(a[lo + 1], a[lo + 2]), Sub(a[lo + 1], a[lo + 2])>>)
    /\ tasks' = [tasks EXCEPT ![f].st = "done"]
    /\ UNCHANGED <<cursor, num_threads, pc, inp, ret, v, results, pending>>

\* call f, n != 2: split_at_mut(n / 2) and the two calls handed to join
RecFork(f) ==
    /\ pc = "recursive"
    /\ tasks[f].st = "called"
    /\ tasks[f].n # 2
    /\ LET half == tasks[f].n \div 2
           stride == rec_child_stride(tasks[f].twiddle_chunk)
       IN tasks' = [tasks EXCEPT
                       ![f].st = "joining",
                       ![2 * f] = Frame(tasks[f].lo, half, stride, f),
                       ![2 * f + 1] = Frame(tasks[f].lo + half, half, stride, f)]
    /\ UNCHANGED <<cursor, num_threads, pc, inp, ret, v, results, pending, a>>

RecCombineNoJoin(f) ==
    /\ pc = "recursive"
    /\ tasks[f].st = "joining"
    /\ LET lo == tasks[f].lo
           half == tasks[f].n \div 2
       IN a' = splice(a, lo,
                  butterfly_combine(SubSeq(a, lo + 1, lo + half),
                                    SubSeq(a, lo + half + 1, lo + tasks[f].n),
                                    tasks[f].twiddle_chunk,
                                    precompute_twiddles(Len(a), v)))
    /\ tasks' = [tasks EXCEPT ![f].st = "done"]
    /\ UNCHANGED <<cursor, num_threads, pc, inp, ret, v, results, pending>>

\* call f after join has returned: the combine step on left and right
RecCombine(f) ==
    /\ pc = "recursive"
    /\ tasks[f].st = "joining"
    /\ Joined(f)
    /\ LET lo == tasks[f].lo
           half == tasks[f].n \div 2
       IN a' = splice(a, lo,
                  butterfly_combine(SubSeq(a, lo + 1, lo + half),
                                    SubSeq(a, lo + half + 1, lo + tasks[f].n),
                                    tasks[f].twiddle_chunk,
                                    precompute_twiddles(Len(a), v)))
    /\ tasks' = [tasks EXCEPT ![f].st = "done"]
    /\ UNCHANGED <<cursor, num_threads, pc, inp, ret, v, results, pending>>

\* the outermost call has returned to cpu_fft
CpuFftReturn ==
    /\ pc = "recursive"
    /\ tasks[1].st = "done"
    /\ pc' = "done"
    /\ UNCHANGED <<cursor, num_threads, inp, ret, v, tasks, results, pending, a>>

CpuFftNext ==
    \/ CpuFftAssert
    \/ CpuFftSwap
    \/ CpuFftIterative
    \/ CpuFftRecursive
    \/ \E f \in 1..Len(tasks) : RecBase(f)
    \/ \E f \in 1..Len(tasks) : RecFork(f)
    \/ \E f \in 1..Len(tasks) : RecCombine(f)
    \/ CpuFftReturn

SpecCpuFft == CpuFftInit /\ [][CpuFftNext]_vars

(***************************************************************************)
(* The round trip of the transform: best_fft with omega, best_fft with     *)
(* omega^-1, then the scaling of every element by n^-1 that is left to the *)
(* caller, done as g_to_lagrange does it: parallelize with a closure that  *)
(* multiplies its chunk by n_inv. The features the crate is built with     *)
(* decide what best_fft calls: gpu_fft under "gpu", cpu_fft (the steps     *)
(* above) under neither "gpu" nor "opencl", nothing under "opencl" alone.  *)
(* `ret` keeps the output of the first call once it has returned.          *)
(***************************************************************************)
\* the features that decide the body of best_fft, each on or off
Features == [gpu : BOOLEAN, opencl : BOOLEAN]

\* the build with neither feature, where best_fft is cpu_fft
NoFeatures == [gpu |-> FALSE, opencl |-> FALSE]

FftBuildInputs(k, features) ==
    {[a |-> i.a, omega |-> i.omega, log_n |-> i.log_n, features |-> features] :
        i \in FftInputs(k)}

\* the value at omega^i of the polynomial with coefficients coeffs
Dft(coeffs, omega, i) ==
    Loop(LAMBDA x, j : Add(x, Mul(coeffs[j + 1], pow_vartime(omega, i * j))),
         ZERO, 0, Len(coeffs))

\* kern.radix_fft_many(&mut [a], &[omega], &[log_n]) when it returns Ok: the
\* kernel is ec_gpu_gen's; as that crate documents it, a holds the transform,
\* the values of the polynomial a at the powers of omega
radix_fft_many(arr, omega) ==
    [i \in 1..Len(arr) |-> evaluate(arr, pow_vartime(omega, i - 1))]

FftInit ==
    /\ num_threads \in FftThreads
    /\ cursor = 0
    /\ pc = "best_fft"
    /\ \E k \in 0..MaxLogN, features \in Features : inp \in FftBuildInputs(k, features)
    \* the pool of ManyThreads only matters to the strategy cpu_fft chooses
    /\ inp.features # NoFeatures => num_threads <= MaxThreads
    /\ a = inp.a
    /\ v = inp.omega
    /\ ret = <<>>
    /\ tasks = <<>> /\ results = <<>> /\ pending = {}

\* #[cfg(not(any(feature = "gpu", feature = "opencl")))] cpu_fft(a, omega, log_n)
BestFftCpu ==
    /\ pc = "best_fft"
    /\ ~inp.features.gpu
    /\ ~inp.features.opencl
    /\ pc' = "call"
    /\ UNCHANGED <<cursor, num_threads, inp, ret, v, tasks, results, pending, a>>

\* #[cfg(feature = "gpu")] gpu_fft(a, omega, log_n): FftKernel::create or
\* radix_fft_many returns Err and the expect panics, or the device has
\* transformed a in place
GpuFft ==
    /\ pc = "best_fft"
    /\ inp.features.gpu
    /\ \/ /\ pc' = "panicked"
          /\ UNCHANGED a
       \/ /\ a' = radix_fft_many(a, v)
          /\ pc' = "done"
    /\ UNCHANGED <<cursor, num_threads, inp, ret, v, tasks, results, pending>>

\* "opencl" without "gpu": neither statement of best_fft is compiled in
BestFftNone ==
    /\ pc = "best_fft"
    /\ ~inp.features.gpu
    /\ inp.features.opencl
    /\ pc' = "done"
    /\ UNCHANGED <<cursor, num_threads, inp, ret, v, tasks, results, pending, a>>

\* the first call has returned: best_fft(a, omega^-1, log_n) is called
FftInverse ==
    /\ pc = "done"
    /\ ret = <<>>
    /\ ret' = <<a>>
    /\ v' = invert(inp.omega)
    /\ cursor' = 0
    /\ tasks' = <<>>
    /\ pc' = "best_fft"
    /\ UNCHANGED <<num_threads, inp, results, pending, a>>

\* the second call has returned: parallelize(&mut a, ...) up to the end of
\* its spawning loops; `pending` holds the chunks whose closure has not run
FftScaleFork ==
    /\ pc = "done"
    /\ ret # <<>>
    /\ pending' = 1..Len(spawns(Len(a), num_threads))
    /\ pc' = "scaling"
    /\ UNCHANGED <<cursor, num_threads, inp, ret, v, tasks, results, a>>

\* one spawned closure: for g in g.iter_mut() { *g *= n_inv }
FftScaleWorker(k) ==
    /\ pc = "scaling"
    /\ k \in pending
    /\ LET t == spawns(Len(a), num_threads)[k]
           scale == n_inv(inp.log_n)
       IN a' = [i \in 1..Len(a) |->
                   IF t.start < i /\ i <= t.start + t.len
                   THEN Mul(a[i], scale)
                   ELSE a[i]]
    /\ pending' = pending \ {k}
    /\ UNCHANGED <<cursor, num_threads, pc, inp, ret, v, tasks, results>>

\* the scope of parallelize has joined
FftScaleJoin ==
    /\ pc = "scaling"
    /\ pending = {}
    /\ pc' = "scaled"
    /\ UNCHANGED <<cursor, num_threads, inp, ret, v, tasks, results, pending, a>>

FftNext ==
    \/ BestFftCpu
    \/ GpuFft
    \/ BestFftNone
    \/ CpuFftNext
    \/ FftInverse
    \/ FftScaleFork
    \/ \E k \in 1..Len(a) : FftScaleWorker(k)
    \/ FftScaleJoin

SpecFft == FftInit /\ [][FftNext]_vars

(***************************************************************************)
(* Claims about the transform                                              *)
(***************************************************************************)
\* C6: for an input of length 2^log_n and omega of order exactly 2^log_n,
\* the transform of cpu_fft with omega, then with omega^-1, then the scaling
\* of every element by n^-1 give back the original sequence.
C6_FftRoundTrip ==
    (pc = "scaled" /\ inp.features = NoFeatures) => a = inp.a

C6_Witness ==
    /\ pc = "scaled"
    /\ inp.features = NoFeatures
    /\ inp.log_n = 3
    /\ num_threads = 1
    /\ inp.a[2] # ZERO
    /\ ret # <<>>
    /\ ret[1] # inp.a
    /\ a = inp.a

\* C7: after cpu_fft with omega of order n, whichever strategy the thread
\* count selects, a[i] is the sum over j of a_orig[j] * omega^(i*j) for every
\* i in 0..n-1.
C7_FftIsEvaluation ==
    (pc = "done" /\ ret = <<>> /\ inp.features = NoFeatures) =>
        \A i \in 0..(Len(a) - 1) : a[i + 1] = Dft(inp.a, inp.omega, i)

C7_Witness ==
    /\ pc = "done"
    /\ ret = <<>>
    /\ inp.features = NoFeatures
    /\ inp.log_n = 3
    /\ num_threads = 8
    /\ a # inp.a

\* C13: when a.len() is not 2^log_n, cpu_fft panics, and at that point no
\* iteration of the swap loop has run and a is the sequence it was called on.
C13_SizeMismatchFailsFirst ==
    /\ (pc # "call" /\ Len(inp.a) # 2 ^ inp.log_n) => pc = "panicked"
    /\ pc = "panicked" =>
          /\ Len(inp.a) # 2 ^ inp.log_n
          /\ cursor = 0
          /\ a = inp.a

C13_Witness ==
    /\ pc = "panicked"
    /\ Len(inp.a) = 5
    /\ inp.log_n = 2
    /\ inp.a[1] # inp.a[3]
    /\ a = inp.a

(***************************************************************************)
(* Claims about the chunking of cpu_multiexp                               *)
(***************************************************************************)
\* the chunks 0..count-1 of slice.chunks(size), one after the other
ChunksConcat(slice, size, count) ==
    Loop(LAMBDA acc, k : acc \o chunk_of(slice, size, k), <<>>, 0, count)

\* C14 as stated: when coeffs.len() > num_threads there are exactly
\* num_threads chunks and result slots, the last chunk holding what the
\* others leave, and multiexp_serial runs once per chunk; otherwise it runs
\* exactly once.
C14_ExactlyNumThreadsChunks ==
    pc = "done" =>
        LET n == Len(inp.coeffs)
            P == num_threads
        IN IF n > P
           THEN /\ Len(results) = P
                /\ v = [k \in 1..P |-> 1]
                /\ Len(chunk_of(inp.coeffs, msm_chunk(n, P), P - 1))
                      = n - (P - 1) * msm_chunk(n, P)
           ELSE v = <<1>>

\* C14 amended: when coeffs.len() > num_threads, coeffs and bases are cut
\* into ceil(n / floor(n / P)) contiguous chunks of floor(n / P) elements,
\* the last one shorter when floor(n / P) does not divide n: at least P
\* chunks and at most n. There is one result slot per chunk, multiexp_serial
\* has run exactly once on every slot, and the slot holds the sum of its
\* chunk. Otherwise multiexp_serial has run exactly once, on all of coeffs.
C14_ChunksOfFloorSize ==
    pc = "done" =>
        LET n == Len(inp.coeffs)
            P == num_threads
            size == n \div P
            count == Len(results)
        IN IF n > P
           THEN /\ count * size >= n /\ (count - 1) * size < n
                /\ P <= count /\ count <= n
                /\ ChunksConcat(inp.coeffs, size, count) = inp.coeffs
                /\ ChunksConcat(inp.bases, size, count) = inp.bases
                /\ \A k \in 1..count :
                      /\ Len(chunk_of(inp.coeffs, size, k - 1))
                            = (IF k < count THEN size ELSE n - (count - 1) * size)
                      /\ v[k] = 1
                      /\ results[k] = DirectSum(chunk_of(inp.coeffs, size, k - 1),
                                                chunk_of(inp.bases, size, k - 1))
           ELSE /\ v = <<1>>
                /\ results = <<>>
                /\ ret.best[1] = DirectSum(inp.coeffs, inp.bases)

C14_Witness ==
    /\ pc = "done"
    /\ num_threads = 2
    /\ Len(inp.coeffs) = 9
    /\ Len(results) = 3
    /\ v = <<1, 1, 1>>
    /\ Len(chunk_of(inp.coeffs, 4, 2)) = 1
    /\ results[3] # identity

(***************************************************************************)
(* multiexp_serial step by step (lines 148-236): `a` holds *acc, `tasks`   *)
(* the values current_segment has taken, `results` the buckets of the      *)
(* current segment and `v`, per bucket, the bases added to it so far.      *)
(***************************************************************************)
SerialInit ==
    /\ num_threads = 1
    /\ cursor = 0
    /\ pc = "segment"
    /\ \/ \E n \in 0..MaxLen : inp \in ShortInputs(n)
       \/ \E n \in LongLens : inp \in LongInputs(n)
    /\ a = <<identity>>
    /\ tasks = <<>>
    /\ results = <<>> /\ v = <<>>
    /\ ret = <<>> /\ pending = {}

\* the head of for current_segment in (0..segments).rev(): the doublings and
\* the fresh buckets
SerialSegment ==
    /\ pc = "segment"
    /\ LET c == window(Len(inp.bases))
       IN /\ Len(tasks) < segments(c)
          /\ tasks' = Append(tasks, segments(c) - 1 - Len(tasks))
          /\ a' = <<double_times(a[1], c)>>
          /\ results' = [j \in 1..((2 ^ c) - 1) |-> BucketNone]
          /\ v' = [j \in 1..((2 ^ c) - 1) |-> <<>>]
    /\ cursor' = 0
    /\ pc' = "fill"
    /\ UNCHANGED <<num_threads, inp, ret, pending>>

\* one iteration of for (coeff, base) in coeffs.iter().zip(bases.iter())
SerialFill ==
    /\ pc = "fill"
    /\ cursor < Min(Len(inp.coeffs), Len(inp.bases))
    /\ LET c == window(Len(inp.bases))
           coeff == get_at(tasks[Len(tasks)], c, to_repr(inp.coeffs[cursor + 1]))
       IN IF coeff # 0
          THEN /\ results' = [results EXCEPT ![coeff] =
                                 bucket_add_assign(@, inp.bases[cursor + 1])]
               /\ v' = [v EXCEPT ![coeff] = Append(@, inp.bases[cursor + 1])]
          ELSE UNCHANGED <<results, v>>
    /\ cursor' = cursor + 1
    /\ UNCHANGED <<num_threads, pc, inp, ret, tasks, pending, a>>

\* the summation by parts that ends the segment
SerialSum ==
    /\ pc = "fill"
    /\ cursor = Min(Len(inp.coeffs), Len(inp.bases))
    /\ a' = <<sum_by_parts(results, a[1])>>
    /\ pc' = "segment"
    /\ UNCHANGED <<cursor, num_threads, inp, ret, v, tasks, results, pending>>

\* the loop over the segments is over
SerialReturn ==
    /\ pc = "segment"
    /\ Len(tasks) = segments(window(Len(inp.bases)))
    /\ pc' = "done"
    /\ UNCHANGED <<cursor, num_threads, inp, ret, v, tasks, results, pending, a>>

SerialNext ==
    \/ SerialSegment
    \/ SerialFill
    \/ SerialSum
    \/ SerialReturn

SpecSerial == SerialInit /\ [][SerialNext]_vars

\* C15 as stated: a call processes ceil(NUM_BITS / c) segments, from the
\* most significant one down to segment 0.
C15_SegmentsIsCeil ==
    pc = "done" =>
        LET c == window(Len(inp.bases))
        IN /\ Len(tasks) = CeilDiv(NUM_BITS, c)
           /\ \A i \in 1..Len(tasks) : tasks[i] = Len(tasks) - i

\* C15 amended: a call processes floor(NUM_BITS / c) + 1 segments, from the
\* most significant one down to segment 0. That is ceil(NUM_BITS / c) when c
\* does not divide NUM_BITS and one more when it does; the additional top
\* segment then holds no bit of a scalar, so every digit read in it is zero.
C15_SegmentsIsFloorPlusOne ==
    LET c == window(Len(inp.bases))
        count == (NUM_BITS \div c) + 1
    IN /\ pc = "done" =>
             /\ Len(tasks) = count
             /\ \A i \in 1..count : tasks[i] = count - i
             /\ Len(tasks) = (IF NUM_BITS % c = 0 THEN CeilDiv(NUM_BITS, c) + 1
                              ELSE CeilDiv(NUM_BITS, c))
       /\ \A i \in 1..Len(tasks) :
             /\ tasks[i] = count - i
             /\ tasks[i] * c >= NUM_BITS =>
                   \A j \in 1..Len(inp.coeffs) :
                       get_at(tasks[i], c, to_repr(inp.coeffs[j])) = 0

C15_Witness ==
    /\ pc = "done"
    /\ Len(inp.bases) = 32
    /\ window(32) = 4
    /\ tasks = <<2, 1, 0>>
    /\ a[1] # identity

\* the digit of scalar x in segment seg of width c
DigitOf(x, seg, c) == (x \div (2 ^ (seg * c))) % (2 ^ c)

\* the bases among the first `upto` whose digit in segment seg is j, in order
BasesWithDigit(j, seg, c, upto) ==
    Loop(LAMBDA acc, i :
            IF DigitOf(inp.coeffs[i + 1], seg, c) = j
            THEN Append(acc, inp.bases[i + 1]) ELSE acc,
         <<>>, 0, upto)

\* the state of a bucket that has received `count` points
TagAfter(count) ==
    IF count = 0 THEN "None" ELSE IF count = 1 THEN "Affine" ELSE "Projective"

C16_BucketStates ==
    pc = "fill" =>
        LET c == window(Len(inp.bases))
            seg == tasks[Len(tasks)]
        IN \A j \in 1..Len(results) :
              /\ results[j].tag = TagAfter(Len(v[j]))
              /\ bucket_add(results[j], identity) = fold_add(v[j])
              /\ v[j] = BasesWithDigit(j, seg, c, cursor)

C16_BucketSteps ==
    (pc = "fill" /\ pc' = "fill") =>
        \A j \in 1..Len(results) :
            \/ results'[j] = results[j] /\ v'[j] = v[j]
            \/ /\ Len(v'[j]) = Len(v[j]) + 1
               /\ <<results[j].tag, results'[j].tag>> \in
                     {<<"None", "Affine">>, <<"Affine", "Projective">>,
                      <<"Projective", "Projective">>}
               /\ DigitOf(inp.coeffs[cursor + 1], tasks[Len(tasks)],
                          window(Len(inp.bases))) = j

\* C16: within one segment every bucket goes from empty to affine on its
\* first point, from affine to projective on its second and stays projective
\* afterwards, never going back; at every point of the loop its value
\* (identity when empty) is the group sum of the points added to it, and
\* these are exactly the bases whose digit for the segment is the bucket's
\* index plus one, so a base with digit zero is added to no bucket.
C16_BucketTransitions == []C16_BucketStates /\ [][C16_BucketSteps]_vars

C16_Witness ==
    /\ pc = "fill"
    /\ cursor = 3
    /\ inp.coeffs = <<1, 171, 1>>
    /\ tasks[Len(tasks)] = 0
    /\ results[1].tag = "Projective"
    /\ Len(v[1]) = 3
    /\ results[1].val = fold_add(inp.bases)

\* the indices of a that call f works on
FrameRange(f) == (tasks[f].lo + 1)..(tasks[f].lo + tasks[f].n)

\* the steps a call on n elements takes until it returns, its callees included
RECURSIVE StepsOf(_)
StepsOf(n) == IF n <= 2 THEN 1 ELSE 2 + 2 * StepsOf(n \div 2)

\* the steps the calls i.. of `calls` still have to take
RECURSIVE RecMeasure(_, _)
RecMeasure(calls, i) ==
    IF i > Len(calls) THEN 0
    ELSE (CASE calls[i].st = "called" -> StepsOf(calls[i].n)
            [] calls[i].st = "joining" -> 1
            [] calls[i].st \in {"done", "none"} -> 0)
         + RecMeasure(calls, i + 1)

\* the calls made so far
Called == {f \in 1..Len(tasks) : tasks[f].st # "none"}

C17_RecursionStates ==
    pc = "recursive" =>
        /\ inp.log_n > log2_floor(num_threads)
        /\ Len(a) >= 2
        /\ \A f \in Called :
              \* the size halves down to 2 and the stride doubles
              /\ tasks[f].n >= 2
              /\ tasks[f].n * tasks[f].twiddle_chunk = Len(a)
              /\ tasks[f].parent # 0 =>
                    /\ tasks[f].n * 2 = tasks[tasks[f].parent].n
                    /\ FrameRange(f) \subseteq FrameRange(tasks[f].parent)
              /\ tasks[f].st = "joining" => tasks[f].n > 2
              \* the two calls of a join work on the two halves
              /\ tasks[f].st # "called" /\ tasks[f].n > 2 =>
                    /\ Cardinality(children(f)) = 2
                    /\ \A c, d \in children(f) :
                          c # d => FrameRange(c) \cap FrameRange(d) = {}
                    /\ UNION {FrameRange(c) : c \in children(f)} = FrameRange(f)
              \* a call has returned only after the calls it joined
              /\ tasks[f].st = "done" => Joined(f)
              \* every twiddle index of the combine step is inside the table
              /\ \A i \in 0..((tasks[f].n \div 2) - 2) :
                    (i + 1) * tasks[f].twiddle_chunk
                        < Len(precompute_twiddles(Len(a), inp.omega))
        \* calls that can run at the same time work on disjoint ranges
        /\ \A f, g \in Called :
              (f # g /\ tasks[f].st # "done" /\ tasks[g].st # "done"
                  /\ tasks[f].parent # g /\ tasks[g].parent # f
                  /\ tasks[f].n = tasks[g].n)
                  => FrameRange(f) \cap FrameRange(g) = {}
        \* some call can always take a step, or the outermost one has returned
        /\ \/ \E f \in Called :
                 \/ tasks[f].st = "called"
                 \/ tasks[f].st = "joining" /\ Joined(f)
           \/ tasks[1].st = "done"

C17_RecursionSteps ==
    (pc = "recursive" /\ pc' = "recursive") =>
        \* every step brings the recursion closer to its end
        /\ RecMeasure(tasks', 1) < RecMeasure(tasks, 1)
        /\ \A f \in Called :
              \* the combine step runs only once both calls of the join are over
              /\ (tasks[f].st = "joining" /\ tasks'[f].st = "done") => Joined(f)
              \* while a call waits for its join, only its callees write its range
              /\ (tasks[f].st = "joining" /\ tasks'[f].st = "joining") =>
                    \A i \in FrameRange(f) :
                        a'[i] # a[i] =>
                            \E c \in Called :
                                /\ tasks[c].st # "done" /\ tasks'[c].st = "done"
                                /\ i \in FrameRange(c)
                                /\ FrameRange(c) \subseteq FrameRange(f)
                                /\ c # f

\* C17: recursive_butterfly_arithmetic is entered from cpu_fft only when
\* log_n > floor(log2(P)), hence with n >= 2. The two calls of every join
\* work on the two disjoint halves of the caller's range and both have
\* returned before the caller's combine step touches either half. The size
\* halves at every level down to the base case n = 2 and every step reduces
\* the work left, so every call returns. Every twiddle index
\* (i + 1) * twiddle_chunk of a combine step is below the table length n / 2.
C17_RecursiveButterfly == []C17_RecursionStates /\ [][C17_RecursionSteps]_vars

C17_Witness ==
    /\ pc = "done"
    /\ inp.log_n = 3
    /\ num_threads = 3
    /\ Len(tasks) = 7
    /\ \A f \in 1..7 : tasks[f].st = "done" /\ tasks[f].n = (IF f = 1 THEN 8 ELSE IF f <= 3 THEN 4 ELSE 2)
    /\ a # inp.a

====
